---- MODULE Spec2Model ----
(***************************************************************************)
(* A model of photutils/centroids/core.py: centroid_com,                   *)
(* gaussian1d_moments, fit_2dgaussian, centroid_1dg, centroid_2dg,         *)
(* centroid_sources and centroid_epsf.                                     *)
(*                                                                         *)
(* Every public function is a call made from the idle state.  The call's   *)
(* arguments are kept in `args`, what it raised or returned in `ret`, and  *)
(* whether it emitted the AstropyUserWarning in `warned`.                  *)
(* centroid_sources is run position by position (its for loop), so that    *)
(* the calls it makes to centroid_func are observable in `calls`.          *)
(*                                                                         *)
(* Floats are modelled as exact extended rationals <<n, d>>: d > 0 is the  *)
(* reduced fraction n/d, <<1,0>> is +inf, <<-1,0>> is -inf and <<0,0>> is  *)
(* NaN.  The rounding of binary floating point and the sign of zero are    *)
(* not modelled.                                                           *)
(***************************************************************************)
EXTENDS Integers, Sequences, FiniteSets, TLC

VARIABLES
    fn,          \* the function called, "idle" before the call
    args,        \* its arguments
    pc,          \* "idle", "loop" (inside centroid_sources' for loop), "done"
    ret,         \* what the call raised or returned
    warned,      \* the AstropyUserWarning for non-finite data was emitted
    fitted,      \* data_properties and/or the fitter were called
    reads,       \* centroid_epsf: the (y, x) index pairs pixels were read by
    footprint,   \* centroid_sources: the footprint after lines 441-455
    use_error,   \* centroid_sources: use_error after lines 457-463
    i,           \* centroid_sources: the next position of zip(xpos, ypos)
    xcentroids,  \* centroid_sources: the list xcentroids
    ycentroids,  \* centroid_sources: the list ycentroids
    calls        \* centroid_sources: the calls of centroid_func, in order

vars == <<fn, args, pc, ret, warned, fitted, reads, footprint, use_error, i,
          xcentroids, ycentroids, calls>>

----------------------------------------------------------------------------
(* Floats as extended rationals *)

RECURSIVE GCD(_, _)
GCD(a, b) == IF b = 0 THEN a ELSE GCD(b, a % b)

AbsInt(n) == IF n < 0 THEN -n ELSE n

Sign(n) == IF n < 0 THEN -1 ELSE IF n = 0 THEN 0 ELSE 1

Norm(n, d) ==
    IF d = 0 THEN <<Sign(n), 0>>
    ELSE IF n = 0 THEN <<0, 1>>
    ELSE LET g == GCD(AbsInt(n), AbsInt(d))
         IN  <<(Sign(d) * n) \div g, AbsInt(d) \div g>>

R(k) == <<k, 1>>
NaN == <<0, 0>>
PosInf == <<1, 0>>
NegInf == <<-1, 0>>

isfinite(x) == x[2] # 0

Neg(x) == <<-x[1], x[2]>>

Add(x, y) ==
    IF x[2] = 0 /\ y[2] = 0
    THEN (IF x = y THEN x ELSE NaN)
    ELSE Norm(x[1] * y[2] + y[1] * x[2], x[2] * y[2])

Sub(x, y) == Add(x, Neg(y))

Mul(x, y) == Norm(x[1] * y[1], x[2] * y[2])

Inv(y) ==
    IF y[1] = 0 THEN (IF y[2] = 0 THEN NaN ELSE PosInf)
    ELSE IF y[2] = 0 THEN <<0, 1>>
    ELSE <<Sign(y[1]) * y[2], AbsInt(y[1])>>

Div(x, y) == Mul(x, Inv(y))

Abs(x) == <<AbsInt(x[1]), x[2]>>

\* mutant of Le0: a strict comparison, which lets a factor of 0 through
Le0_strict(x) == x # NaN /\ x[1] < 0

\* x <= 0 as floats compare: false for NaN
Le0(x) == x # NaN /\ x[1] <= 0

\* x < y for finite x and y
Less(x, y) == x[1] * y[2] < y[1] * x[2]

----------------------------------------------------------------------------
(* Arrays: a shape and a value for every 0-based index tuple *)

Indices(shape) ==
    IF Len(shape) = 1 THEN {<<a>> : a \in 0..(shape[1] - 1)}
    ELSE IF Len(shape) = 2
    THEN {<<a, b>> : a \in 0..(shape[1] - 1), b \in 0..(shape[2] - 1)}
    ELSE {<<a, b, c>> : a \in 0..(shape[1] - 1), b \in 0..(shape[2] - 1),
                        c \in 0..(shape[3] - 1)}

Arr(shape, v) == [none |-> FALSE, shape |-> shape, v |-> v]

\* Python's None for an optional array argument
None == [none |-> TRUE, shape |-> <<>>, v |-> <<>>]

Full(shape, x) == Arr(shape, [idx \in Indices(shape) |-> x])

Reverse(s) == [k \in 1..Len(s) |-> s[Len(s) + 1 - k]]

RECURSIVE SumOver(_, _)
SumOver(S, f) ==
    IF S = {} THEN R(0)
    ELSE LET x == CHOOSE y \in S : TRUE
         IN  Add(f[x], SumOver(S \ {x}, f))

\* np.sum(a)
npsum(a) == SumOver(DOMAIN a.v, a.v)

\* Boolean arrays hold 1 for True and 0 for False, as Python's bool does.
\* np.asarray(mask, dtype=bool): every nonzero entry is True
asbool(mask) ==
    Arr(mask.shape, [idx \in DOMAIN mask.v |->
                        IF mask.v[idx] # 0 THEN 1 ELSE 0])

\* data[sel] = 0. for a boolean array sel of data's shape
zeroed(data, sel) ==
    Arr(data.shape, [idx \in DOMAIN data.v |->
                        IF sel.v[idx] = 1 THEN R(0) ELSE data.v[idx]])

\* ~np.isfinite(data)
notfinite(data) ==
    Arr(data.shape, [idx \in DOMAIN data.v |->
                        IF isfinite(data.v[idx]) THEN 0 ELSE 1])

\* np.any(sel)
npany(sel) == \E idx \in DOMAIN sel.v : sel.v[idx] = 1

Raise(kind, msg) == [status |-> kind, msg |-> msg, value |-> <<>>]

Return(value) == [status |-> "ok", msg |-> "", value |-> value]

NoRet == [status |-> "none", msg |-> "", value |-> <<>>]

----------------------------------------------------------------------------
(* centroid_com *)

\* np.atleast_1d(oversampling), repeated to two factors when it has one
oversampling_pair(oversampling) ==
    IF Len(oversampling) = 1
    THEN <<oversampling[1], oversampling[1]>>
    ELSE oversampling

\* mutant of apply_mask: only the entries equal to True (1) are masked
apply_mask_true_only(data, mask) ==
    IF mask.none THEN data
    ELSE Arr(data.shape, [idx \in DOMAIN data.v |->
                IF mask.v[idx] = 1 THEN R(0) ELSE data.v[idx]])

\* the mask handling of centroid_com and centroid_epsf: the data with the
\* masked entries set to 0
apply_mask(data, mask) ==
    IF mask.none THEN data ELSE zeroed(data, asbool(mask))

\* np.sum(indices[axis] * data) for the 0-based numpy axis
moment(data, axis) ==
    SumOver(DOMAIN data.v,
            [idx \in DOMAIN data.v |-> Mul(R(idx[axis + 1]), data.v[idx])])

\* mutant of com_coords: the coordinates left in numpy's axis order
com_coords_axis_order(data, oversampling) ==
    LET total == npsum(data)
    IN  [k \in 1..Len(data.shape) |->
            Div(Div(moment(data, k - 1), total), oversampling[k])]

\* the returned array: one coordinate per axis, reversed to pixel order
com_coords(data, oversampling) ==
    LET total == npsum(data)
    IN  Reverse([k \in 1..Len(data.shape) |->
                    Div(Div(moment(data, k - 1), total), oversampling[k])])

\* centroid_com(data, mask, oversampling): what it raises or returns, and
\* whether it warned
centroid_com(data, mask, oversampling) ==
    LET os == Reverse(oversampling_pair(oversampling))
    IN  IF \E k \in 1..Len(os) : Le0(os[k])
        THEN [ret |-> Raise("ValueError",
                            "Oversampling factors must all be positive numbers."),
              warned |-> FALSE]
        ELSE IF ~mask.none /\ data.shape # mask.shape
        THEN [ret |-> Raise("ValueError",
                            "data and mask must have the same shape."),
              warned |-> FALSE]
        ELSE LET d1 == apply_mask(data, mask)
                 badidx == notfinite(d1)
                 d2 == zeroed(d1, badidx)
             IN  IF Len(data.shape) > Len(os)
                 THEN [ret |-> Raise("IndexError", "index out of bounds"),
                       warned |-> npany(badidx)]
                 ELSE [ret |-> Return(com_coords(d2, os)),
                       warned |-> npany(badidx)]

----------------------------------------------------------------------------
(* gaussian1d_moments, fit_2dgaussian, centroid_1dg, centroid_2dg *)
(* Masks given to these four are boolean arrays (0 is False, 1 is True).   *)

AllFalse(shape) == Full(shape, 0)

\* a | b for boolean arrays of one shape
mask_or(a, b) ==
    Arr(a.shape, [idx \in DOMAIN a.v |->
                     IF a.v[idx] = 1 \/ b.v[idx] = 1 THEN 1 ELSE 0])

\* mutant of macount: the size of the array, masked entries included
macount_size(m) == Cardinality(DOMAIN m.v)

\* np.ma.count(data): the number of unmasked entries
macount(m) == Cardinality({idx \in DOMAIN m.v : m.v[idx] = 0})

\* np.any(~np.isfinite(data)) for a masked array: masked entries are skipped
any_unmasked_notfinite(data, m) ==
    \E idx \in DOMAIN data.v : m.v[idx] = 0 /\ ~isfinite(data.v[idx])

RECURSIVE MaxOver(_, _)
MaxOver(S, f) ==
    LET x == CHOOSE y \in S : TRUE
    IN  IF S = {x} THEN f[x]
        ELSE LET m == MaxOver(S \ {x}, f)
             IN  IF Less(m, f[x]) THEN f[x] ELSE m

RECURSIVE MinOver(_, _)
MinOver(S, f) ==
    LET x == CHOOSE y \in S : TRUE
    IN  IF S = {x} THEN f[x]
        ELSE LET m == MinOver(S \ {x}, f)
             IN  IF Less(f[x], m) THEN f[x] ELSE m

\* gaussian1d_moments(data, mask) for 1D data.  The returned triple is
\* (amplitude, x_mean, x_stddev); x_stddev is a square root, so the model
\* keeps its square, abs(sum(data * (x - x_mean)**2) / sum(data)).
gaussian1d_moments(data, mask) ==
    LET bad == notfinite(data)
        w == npany(bad)
    IN  IF ~mask.none /\ data.shape # mask.shape
        THEN [ret |-> Raise("ValueError",
                            "data and mask must have the same shape."),
              warned |-> w]
        ELSE LET m == IF mask.none THEN bad ELSE mask_or(bad, asbool(mask))
                 d == zeroed(data, m)
                 total == npsum(d)
                 x_mean == Div(SumOver(DOMAIN d.v,
                                  [idx \in DOMAIN d.v |->
                                      Mul(R(idx[1]), d.v[idx])]), total)
                 x_var == Abs(Div(SumOver(DOMAIN d.v,
                                  [idx \in DOMAIN d.v |->
                                      Mul(d.v[idx],
                                          Mul(Sub(R(idx[1]), x_mean),
                                              Sub(R(idx[1]), x_mean)))]),
                                  total))
                 amplitude == Sub(MaxOver(DOMAIN d.v, d.v),
                                  MinOver(DOMAIN d.v, d.v))
             IN  [ret |-> Return(<<amplitude, x_mean, x_var>>),
                  warned |-> w]

\* mutant of masked_input: the error's shape is not checked
masked_input_no_error_check(data, error, mask) ==
    IF ~mask.none /\ data.shape # mask.shape
    THEN [ret |-> Raise("ValueError",
                        "data and mask must have the same shape."),
          warned |-> FALSE, m |-> None]
    ELSE LET m1 == IF mask.none THEN AllFalse(data.shape) ELSE asbool(mask)
             w == any_unmasked_notfinite(data, m1)
             m2 == IF w THEN mask_or(m1, notfinite(data)) ELSE m1
         IN  [ret |-> NoRet, warned |-> w, m |-> m2]

\* The checks that open fit_2dgaussian and centroid_1dg: the mask's shape,
\* the automatic masking of the non-finite data (with its warning), the
\* error's shape.  `m` is data.mask after them.
masked_input(data, error, mask) ==
    IF ~mask.none /\ data.shape # mask.shape
    THEN [ret |-> Raise("ValueError",
                        "data and mask must have the same shape."),
          warned |-> FALSE, m |-> None]
    ELSE LET m1 == IF mask.none THEN AllFalse(data.shape) ELSE asbool(mask)
             w == any_unmasked_notfinite(data, m1)
             m2 == IF w THEN mask_or(m1, notfinite(data)) ELSE m1
         IN  IF ~error.none /\ data.shape # error.shape
             THEN [ret |-> Raise("ValueError",
                                 "data and error must have the same shape."),
                   warned |-> w, m |-> None]
             ELSE [ret |-> NoRet, warned |-> w,
                   m |-> IF error.none THEN m2
                         ELSE mask_or(m2, notfinite(error))]

\* the number of parameters of GaussianConst2D
NParams == 7

\* fit_2dgaussian(data, error, mask) up to the call of data_properties and
\* of the fitter: `fitted` says whether they are called, `m` is the mask
\* they are given.  What the fitter returns is not decided here.
fit_2dgaussian(data, error, mask) ==
    LET c == masked_input(data, error, mask)
    IN  IF c.ret.status # "none"
        THEN [ret |-> c.ret, warned |-> c.warned, fitted |-> FALSE, m |-> None]
        ELSE IF macount(c.m) < NParams
        THEN [ret |-> Raise("ValueError",
                            "Input data must have a least 7 unmasked values"),
              warned |-> c.warned, fitted |-> FALSE, m |-> None]
        ELSE [ret |-> NoRet, warned |-> c.warned, fitted |-> TRUE, m |-> c.m]

\* centroid_1dg(data, error, mask) up to its two 1D fits
centroid_1dg(data, error, mask) ==
    LET c == masked_input(data, error, mask)
    IN  IF c.ret.status # "none"
        THEN [ret |-> c.ret, warned |-> c.warned, fitted |-> FALSE, m |-> None]
        ELSE [ret |-> NoRet, warned |-> c.warned, fitted |-> TRUE, m |-> c.m]

\* centroid_2dg(data, error, mask): fit_2dgaussian decides
centroid_2dg(data, error, mask) == fit_2dgaussian(data, error, mask)

----------------------------------------------------------------------------
(* centroid_epsf *)

\* mutant of center_index: the index before the centre
center_index_before(n) == IF n >= 1 THEN (n - 1) \div 2 - 1 ELSE 0

\* int((n - 1) / 2): true division, then truncation towards zero
center_index(n) == IF n >= 1 THEN (n - 1) \div 2 ELSE 0

\* np.around(x).astype(int) for a finite x: to the nearest integer, a half
\* to the even neighbour
around(x) ==
    LET f == x[1] \div x[2]
        twice == 2 * (x[1] - f * x[2])
    IN  IF twice < x[2] THEN f
        ELSE IF twice > x[2] THEN f + 1
        ELSE IF f % 2 = 0 THEN f ELSE f + 1

\* a[k] for an axis of length n: negative k counts from the end
in_bounds(n, k) == -n <= k /\ k < n
wrap(n, k) == IF k < 0 THEN n + k ELSE k

\* data[y, x] with Python's indexing
pixel(data, y, x) ==
    data.v[<<wrap(data.shape[1], y), wrap(data.shape[2], x)>>]

readable(data, yx) ==
    in_bounds(data.shape[1], yx[1]) /\ in_bounds(data.shape[2], yx[2])

\* the (y, x) pairs of the bad-value check, in the order they are read
checked_pixels(yidx_0, xidx_0, y_shiftidx, x_shiftidx) ==
    LET xs == <<xidx_0, xidx_0 + x_shiftidx, xidx_0 + x_shiftidx - 1,
                xidx_0 + x_shiftidx + 1>>
        ys == <<yidx_0, yidx_0 + y_shiftidx, yidx_0 + y_shiftidx - 1,
                yidx_0 + y_shiftidx + 1>>
    IN  [k \in 1..16 |-> <<ys[((k - 1) % 4) + 1], xs[((k - 1) \div 4) + 1]>>]

\* the (y, x) pairs read to compute the two shifts
shift_pixels(yidx_0, xidx_0, y_shiftidx, x_shiftidx) ==
    {<<yidx_0, xidx_0 + x_shiftidx>>, <<yidx_0, xidx_0 + x_shiftidx - 1>>,
     <<yidx_0, xidx_0 + x_shiftidx + 1>>,
     <<yidx_0, xidx_0 - x_shiftidx>>, <<yidx_0, xidx_0 - x_shiftidx - 1>>,
     <<yidx_0, xidx_0 - x_shiftidx + 1>>,
     <<yidx_0 + y_shiftidx, xidx_0>>, <<yidx_0 + y_shiftidx - 1, xidx_0>>,
     <<yidx_0 + y_shiftidx + 1, xidx_0>>,
     <<yidx_0 - y_shiftidx, xidx_0>>, <<yidx_0 - y_shiftidx - 1, xidx_0>>,
     <<yidx_0 - y_shiftidx + 1, xidx_0>>}

\* mutant of epsf_shift: the derivatives keep their sign
epsf_shift_signed(psi_pos, pos_m1, pos_p1, psi_neg, neg_m1, neg_p1, oversamp) ==
    LET dpsi_pos == Div(Sub(pos_p1, pos_m1), Div(R(2), oversamp))
        dpsi_neg == Div(Sub(neg_p1, neg_m1), Div(R(2), oversamp))
    IN  Div(Sub(psi_pos, psi_neg), Add(dpsi_pos, dpsi_neg))

\* (psi_pos - psi_neg) / (dpsi_pos + dpsi_neg) from the six pixel values
\* of one axis
epsf_shift(psi_pos, pos_m1, pos_p1, psi_neg, neg_m1, neg_p1, oversamp) ==
    LET dpsi_pos == Div(Abs(Sub(pos_p1, pos_m1)), Div(R(2), oversamp))
        dpsi_neg == Div(Abs(Sub(neg_p1, neg_m1)), Div(R(2), oversamp))
    IN  Div(Sub(psi_pos, psi_neg), Add(dpsi_pos, dpsi_neg))

\* centroid_epsf(data, mask, oversampling, shift_val): what it raises or
\* returns, and the (y, x) index pairs it read pixels through
centroid_epsf(data, mask, oversampling, shift_val) ==
    LET os == oversampling_pair(oversampling)
    IN  IF \E k \in 1..Len(os) : Le0(os[k])
        THEN [ret |-> Raise("ValueError",
                            "Oversampling factors must all be positive numbers."),
              reads |-> {}]
        ELSE IF ~mask.none /\ data.shape # mask.shape
        THEN [ret |-> Raise("ValueError",
                            "data and mask must have the same shape."),
              reads |-> {}]
        ELSE IF Le0(shift_val)
        THEN [ret |-> Raise("ValueError",
                            "shift_val must be a positive number."),
              reads |-> {}]
        ELSE IF Len(data.shape) < 2
        THEN [ret |-> Raise("IndexError", "tuple index out of range"),
              reads |-> {}]
        ELSE
        LET d == apply_mask(data, mask)
            xidx_0 == center_index(data.shape[2])
            x_0 == Div(R(xidx_0), os[1])
            yidx_0 == center_index(data.shape[1])
            y_0 == Div(R(yidx_0), os[2])
            x_shiftidx == around(Mul(shift_val, os[1]))
            y_shiftidx == around(Mul(shift_val, os[1]))
            chk == checked_pixels(yidx_0, xidx_0, y_shiftidx, x_shiftidx)
            unreadable == {k \in 1..16 : ~readable(d, chk[k])}
        IN  IF unreadable # {}
            THEN [ret |-> Raise("IndexError", "index out of bounds"),
                  reads |-> {chk[k] : k \in
                      {j \in 1..16 : \A u \in unreadable : j < u}}]
            ELSE IF \E k \in 1..16 : ~isfinite(pixel(d, chk[k][1], chk[k][2]))
            THEN [ret |-> Raise("ValueError",
                                "One or more centroiding pixels is set to a bad value"),
                  reads |-> {chk[k] : k \in 1..16}]
            ELSE
            LET x_shift == epsf_shift(
                    pixel(d, yidx_0, xidx_0 + x_shiftidx),
                    pixel(d, yidx_0, xidx_0 + x_shiftidx - 1),
                    pixel(d, yidx_0, xidx_0 + x_shiftidx + 1),
                    pixel(d, yidx_0, xidx_0 - x_shiftidx),
                    pixel(d, yidx_0, xidx_0 - x_shiftidx - 1),
                    pixel(d, yidx_0, xidx_0 - x_shiftidx + 1), os[1])
                y_shift == epsf_shift(
                    pixel(d, yidx_0 + y_shiftidx, xidx_0),
                    pixel(d, yidx_0 + y_shiftidx - 1, xidx_0),
                    pixel(d, yidx_0 + y_shiftidx + 1, xidx_0),
                    pixel(d, yidx_0 - y_shiftidx, xidx_0),
                    pixel(d, yidx_0 - y_shiftidx - 1, xidx_0),
                    pixel(d, yidx_0 - y_shiftidx + 1, xidx_0), os[2])
                rd == {chk[k] : k \in 1..16} \cup
                      shift_pixels(yidx_0, xidx_0, y_shiftidx, x_shiftidx)
            IN  IF \E yx \in rd : ~readable(d, yx)
                THEN [ret |-> Raise("IndexError", "index out of bounds"),
                      reads |-> {yx \in rd : readable(d, yx)}]
                ELSE [ret |-> Return(<<Add(x_0, x_shift), Add(y_0, y_shift)>>),
                      reads |-> rd]

----------------------------------------------------------------------------
(* centroid_sources *)

Max(a, b) == IF a > b THEN a ELSE b
Min(a, b) == IF a < b THEN a ELSE b

\* int(np.ceil(x)) for a finite x
Ceil(x) == -((-x[1]) \div x[2])

\* astropy.nddata.utils.overlap_slices(large_array_shape, small_array_shape,
\* position) in its default mode 'partial', for 2D shapes: per axis the
\* slice into the large array and the slice into the small one.
overlap_slices(large_array_shape, small_array_shape, position) ==
    LET indices_min == [k \in 1..2 |->
            Ceil(Sub(position[k], <<small_array_shape[k], 2>>))]
        indices_max == [k \in 1..2 |->
            Ceil(Add(position[k], <<small_array_shape[k], 2>>))]
    IN  IF \/ \E k \in 1..2 :
                  \/ indices_max[k] < 0
                  \/ (indices_max[k] = 0 /\ small_array_shape # <<0, 0>>)
           \/ \E k \in 1..2 : indices_min[k] >= large_array_shape[k]
        THEN [overlap |-> FALSE, large |-> <<>>, small |-> <<>>]
        ELSE [overlap |-> TRUE,
              large |-> [k \in 1..2 |->
                  [start |-> Max(0, indices_min[k]),
                   stop |-> Min(large_array_shape[k], indices_max[k])]],
              small |-> [k \in 1..2 |->
                  [start |-> Max(0, -indices_min[k]),
                   stop |-> Min(large_array_shape[k] - indices_min[k],
                                indices_max[k] - indices_min[k])]]]

\* a[slices] for a 2D array and slices with 0 <= start, stop <= length
cutout(a, slices) ==
    LET shape == [k \in 1..2 |-> Max(0, slices[k].stop - slices[k].start)]
    IN  Arr(shape, [idx \in Indices(shape) |->
                a.v[<<idx[1] + slices[1].start, idx[2] + slices[2].start>>]])

\* ~footprint
logical_not(a) == Arr(a.shape, [idx \in DOMAIN a.v |-> 1 - a.v[idx]])

\* mutant of resolve_footprint: box_size, when given, decides
resolve_footprint_box_first(box_size, fp) ==
    IF ~box_size.none
    THEN LET bs == IF Len(box_size.v) = 1
                   THEN <<box_size.v[1], box_size.v[1]>>
                   ELSE box_size.v
         IN  IF Len(bs) # 2
             THEN [ret |-> Raise("ValueError",
                                 "box_size must have 1 or 2 elements."),
                   footprint |-> None]
             ELSE [ret |-> NoRet, footprint |-> Full(bs, 1)]
    ELSE IF fp.none
         THEN [ret |-> Raise("ValueError",
                             "box_size or footprint must be defined."),
               footprint |-> None]
         ELSE IF Len(fp.shape) # 2
         THEN [ret |-> Raise("ValueError", "footprint must be a 2D array."),
               footprint |-> None]
         ELSE [ret |-> NoRet, footprint |-> asbool(fp)]

\* the arguments box_size and footprint resolved to the footprint used
\* (lines 441-455): an error, or a 2D boolean array
resolve_footprint(box_size, fp) ==
    IF fp.none
    THEN IF box_size.none
         THEN [ret |-> Raise("ValueError",
                             "box_size or footprint must be defined."),
               footprint |-> None]
         ELSE LET bs == IF Len(box_size.v) = 1
                        THEN <<box_size.v[1], box_size.v[1]>>
                        ELSE box_size.v
              IN  IF Len(bs) # 2
                  THEN [ret |-> Raise("ValueError",
                                      "box_size must have 1 or 2 elements."),
                        footprint |-> None]
                  ELSE [ret |-> NoRet, footprint |-> Full(bs, 1)]
    ELSE IF Len(fp.shape) # 2
         THEN [ret |-> Raise("ValueError", "footprint must be a 2D array."),
               footprint |-> None]
         ELSE [ret |-> NoRet, footprint |-> asbool(fp)]

\* Python's None for box_size
BoxNone == [none |-> TRUE, v |-> <<>>]

Box(v) == [none |-> FALSE, v |-> v]

\* mutant of sources_setup: centroid_func is not asked for a mask parameter
sources_setup_no_mask_check(xpos, ypos, box_size, fp, centroid_func) ==
    IF xpos.ndim # 1
    THEN [ret |-> Raise("ValueError", "xpos must be a 1D array."),
          footprint |-> None, use_error |-> FALSE]
    ELSE IF ypos.ndim # 1
    THEN [ret |-> Raise("ValueError", "ypos must be a 1D array."),
          footprint |-> None, use_error |-> FALSE]
    ELSE LET f == resolve_footprint(box_size, fp)
         IN  IF f.ret.status # "none"
             THEN [ret |-> f.ret, footprint |-> None, use_error |-> FALSE]
             ELSE [ret |-> NoRet, footprint |-> f.footprint,
                   use_error |-> "error" \in centroid_func.args]

\* mutant of sources_setup: use_error is set whatever centroid_func declares
sources_setup_use_error(xpos, ypos, box_size, fp, centroid_func) ==
    IF xpos.ndim # 1
    THEN [ret |-> Raise("ValueError", "xpos must be a 1D array."),
          footprint |-> None, use_error |-> FALSE]
    ELSE IF ypos.ndim # 1
    THEN [ret |-> Raise("ValueError", "ypos must be a 1D array."),
          footprint |-> None, use_error |-> FALSE]
    ELSE LET f == resolve_footprint(box_size, fp)
         IN  IF f.ret.status # "none"
             THEN [ret |-> f.ret, footprint |-> None, use_error |-> FALSE]
             ELSE IF "mask" \notin centroid_func.args
             THEN [ret |-> Raise("ValueError",
                       "The input centroid_func must have a mask keyword."),
                   footprint |-> None, use_error |-> FALSE]
             ELSE [ret |-> NoRet, footprint |-> f.footprint,
                   use_error |-> TRUE]

\* lines 434-463: the checks made before the loop.  An error, or the
\* footprint and use_error the loop runs with.
sources_setup(xpos, ypos, box_size, fp, centroid_func) ==
    IF xpos.ndim # 1
    THEN [ret |-> Raise("ValueError", "xpos must be a 1D array."),
          footprint |-> None, use_error |-> FALSE]
    ELSE IF ypos.ndim # 1
    THEN [ret |-> Raise("ValueError", "ypos must be a 1D array."),
          footprint |-> None, use_error |-> FALSE]
    ELSE LET f == resolve_footprint(box_size, fp)
         IN  IF f.ret.status # "none"
             THEN [ret |-> f.ret, footprint |-> None, use_error |-> FALSE]
             ELSE IF "mask" \notin centroid_func.args
             THEN [ret |-> Raise("ValueError",
                       "The input centroid_func must have a mask keyword."),
                   footprint |-> None, use_error |-> FALSE]
             ELSE [ret |-> NoRet, footprint |-> f.footprint,
                   use_error |-> "error" \in centroid_func.args]

\* mutant of combined_mask: the input mask is left out
combined_mask_footprint_only(mask, fp, slices_large, slices_small) ==
    cutout(logical_not(fp), slices_small)

\* the mask given to centroid_func (lines 472-484)
combined_mask(mask, fp, slices_large, slices_small) ==
    LET footprint_mask == cutout(logical_not(fp), slices_small)
    IN  IF mask.none THEN footprint_mask
        ELSE mask_or(asbool(cutout(mask, slices_large)), footprint_mask)

\* mutant of to_global: the row offset added to x, the column offset to y
to_global_swapped(xcen, ycen, slices_large) ==
    <<Add(xcen, R(slices_large[1].start)), Add(ycen, R(slices_large[2].start))>>

\* lines 493-494: the centroid in the cutout moved to image coordinates
to_global(xcen, ycen, slices_large) ==
    <<Add(xcen, R(slices_large[2].start)), Add(ycen, R(slices_large[1].start))>>

\* centroid_func(data_cutout, mask=mask_cutout[, error=error_cutout]).
\* centroid_com is the function above with its default oversampling; any
\* other callable stands for a user's function, here one that returns the
\* middle of the cutout it is given.
call_centroid_func(centroid_func, data_cutout, mask_cutout, error_cutout) ==
    IF centroid_func.name = "centroid_com"
    THEN centroid_com(data_cutout, mask_cutout, <<R(1)>>)
    ELSE [ret |-> Return(<<Norm(data_cutout.shape[2] - 1, 2),
                           Norm(data_cutout.shape[1] - 1, 2)>>),
          warned |-> FALSE]

----------------------------------------------------------------------------
(* The inputs the calls are made with *)

\* the largest finite data value of centroid_com's and
\* gaussian1d_moments' inputs
MaxVal == 1

\* the largest entry of a non-boolean mask
MaxMaskVal == 2

\* the largest number of True entries of the masks given to the fits
MaxMasked == 2

\* all arrays of a shape with entries from a set
Arrays(shape, vals) == {Arr(shape, v) : v \in [Indices(shape) -> vals]}

\* the arrays of a shape that hold `fill` except at up to n cells, which
\* hold `other`
Spotted(shape, fill, other, n) ==
    {Arr(shape, [idx \in Indices(shape) |-> IF idx \in S THEN other ELSE fill]) :
        S \in {T \in SUBSET Indices(shape) : Cardinality(T) <= n}}

\* a shape that differs from `shape`
OtherShape(shape) == [k \in 1..Len(shape) |-> IF k = 1 THEN shape[1] + 1 ELSE shape[k]]

ComVals == {R(k) : k \in (0 - 1)..MaxVal} \cup {NaN}

ComShapes == {<<2, 2>>}

\* None, a mask of another shape, and the masks of the data's shape that
\* hold one value k >= 1 at their True entries (k = 1: a boolean mask)
ComMasks(shape) ==
    {None, Full(OtherShape(shape), 1)} \cup
    UNION {Spotted(shape, 0, k, Cardinality(Indices(shape))) : k \in 1..MaxMaskVal}

\* a scalar oversampling (one factor) or a pair (x, y)
Oversamplings ==
    {<<R(0 - 1)>>, <<R(0)>>, <<R(1)>>, <<R(2)>>,
     <<R(1), R(2)>>, <<R(2), R(1)>>, <<R(0 - 1), R(1)>>, <<R(2), R(0)>>}

\* centroid_com on data of one and of three dimensions
NdShapes == {<<3>>, <<2, 1, 2>>}

NdMasks(shape) == {None} \cup Spotted(shape, 0, 1, 1)

\* gaussian1d_moments: 1D data
MomentShapes == {<<3>>}

MomentMasks(shape) ==
    {None, Full(OtherShape(shape), 0), Full(<<1, shape[1]>>, 0)} \cup
    Spotted(shape, 0, 1, Cardinality(Indices(shape)))

\* fit_2dgaussian, centroid_1dg, centroid_2dg: data of ones with at most one
\* NaN, errors of ones with at most one inf, masks with few True entries
FitShapes == {<<2, 2>>, <<2, 4>>}

FitData(shape) == Spotted(shape, R(1), NaN, 1)

FitMasks(shape) ==
    {None, Full(OtherShape(shape), 0)} \cup Spotted(shape, 0, 1, MaxMasked)

FitErrors(shape) ==
    {None, Full(OtherShape(shape), R(1))} \cup Spotted(shape, R(1), PosInf, 1)

\* the (x_mean, y_mean) the fitter may come back with
FitMeans == {<<R(0), R(0)>>, <<R(1), <<1, 2>>>>}

\* centroid_epsf: a peaked image with at most one cell replaced
EpsfShapes == {<<3, 3>>, <<3, 5>>, <<5, 5>>, <<4, 4>>}

Peak(shape) ==
    LET cy == (shape[1] - 1) \div 2
        cx == (shape[2] - 1) \div 2
    IN  Arr(shape, [idx \in Indices(shape) |->
                R(1 + (cy - AbsInt(idx[1] - cy)) + 2 * (cx - AbsInt(idx[2] - cx)))])

EpsfSpecial == {R(0), NaN, PosInf}

\* the peaked image made brighter below and to the right of its centre
Skewed(shape) ==
    Arr(shape, [idx \in Indices(shape) |->
        Add(Peak(shape).v[idx],
            R((IF 2 * idx[1] > shape[1] - 1 THEN 1 ELSE 0)
              + (IF 2 * idx[2] > shape[2] - 1 THEN 2 ELSE 0)))])

EpsfData(shape) ==
    {Peak(shape), Skewed(shape)} \cup
    {Arr(shape, [idx \in Indices(shape) |->
                    IF idx = c THEN x ELSE Peak(shape).v[idx]]) :
        c \in Indices(shape), x \in EpsfSpecial}

EpsfMasks(shape) ==
    {None, Full(OtherShape(shape), 0)} \cup Spotted(shape, 0, 1, 1)

ShiftVals == {R(0 - 1), R(0), <<1, 2>>, R(1), <<3, 2>>}

\* centroid_sources: the longest list of positions
MaxPositions == 2

SrcShape == <<2, 3>>

\* the image: ones, or ones with one brighter pixel, at the cell the input
\* mask is true at or in the far corner
SrcImages ==
    {Full(SrcShape, R(1))} \cup
    {Arr(SrcShape, [idx \in Indices(SrcShape) |->
            IF idx = hot THEN R(3) ELSE R(1)]) : hot \in {<<0, 1>>, <<1, 2>>}}

\* (x, y) positions: off the image, on its near edge, between pixels, on
\* its far edge
SrcPoints ==
    {<<R(0 - 2), R(0)>>, <<R(0), R(1)>>, <<<<3, 2>>, <<1, 2>>>>, <<R(2), R(1)>>}

SeqsUpTo(S, n) == UNION {[1..k -> S] : k \in 0..n}

Pos1D(v) == [ndim |-> 1, v |-> v]

\* np.atleast_1d(xpos), np.atleast_1d(ypos): the lists of the x and of the y
\* of up to MaxPositions points, each whole or without its last entry, and
\* two pairs in which one of the two is a 2D array
SrcPositions ==
    {<<Pos1D([k \in 1..nx |-> pts[k][1]]), Pos1D([k \in 1..ny |-> pts[k][2]])>> :
        <<pts, nx, ny>> \in
            {t \in SeqsUpTo(SrcPoints, MaxPositions) \X (0..MaxPositions)
                                                   \X (0..MaxPositions) :
                /\ t[2] \in {Len(t[1]) - 1, Len(t[1])}
                /\ t[3] \in {Len(t[1]) - 1, Len(t[1])}
                /\ (t[2] = Len(t[1]) \/ t[3] = Len(t[1]))}}
    \cup {<<[ndim |-> 2, v |-> <<R(0), R(2)>>], Pos1D(<<R(0), R(1)>>)>>,
          <<Pos1D(<<R(0), R(2)>>), [ndim |-> 2, v |-> <<R(0), R(1)>>]>>}

SrcBoxes == {BoxNone, Box(<<3>>), Box(<<1, 2>>), Box(<<1, 2, 3>>)}

\* no footprint, a 1D footprint, and a 2D one with a hole and a non-boolean
\* entry
SrcFootprints ==
    {None, Full(<<3>>, 1),
     Arr(<<2, 2>>, [idx \in Indices(<<2, 2>>) |->
            IF idx = <<0, 1>> THEN 0 ELSE IF idx = <<0, 0>> THEN 2 ELSE 1])}

SrcMasks == {None} \cup
    {Arr(SrcShape, [idx \in Indices(SrcShape) |->
            IF idx = <<0, 1>> THEN 1 ELSE 0])}

SrcErrors == {None} \cup
    {Arr(SrcShape, [idx \in Indices(SrcShape) |-> R(10 + 3 * idx[1] + idx[2])])}

\* centroid_func: centroid_com, and callables of a user that declare
\* (data, mask, error) and (data)
SrcFuncs ==
    {[name |-> "centroid_com", args |-> {"data", "mask", "oversampling"}],
     [name |-> "user_func", args |-> {"data", "mask", "error"}],
     [name |-> "user_func", args |-> {"data"}]}

----------------------------------------------------------------------------
(* The calls *)

NoArgs == [none |-> TRUE]

Init ==
    /\ fn = "idle"
    /\ args = NoArgs
    /\ pc = "idle"
    /\ ret = NoRet
    /\ warned = FALSE
    /\ fitted = FALSE
    /\ reads = {}
    /\ footprint = None
    /\ use_error = FALSE
    /\ i = 0
    /\ xcentroids = <<>>
    /\ ycentroids = <<>>
    /\ calls = <<>>

CallCentroidCom ==
    /\ pc = "idle"
    /\ \E shape \in ComShapes :
       \E data \in Arrays(shape, ComVals), mask \in ComMasks(shape),
          oversampling \in Oversamplings :
          \E r \in {centroid_com(data, mask, oversampling)} :
              /\ fn' = "centroid_com"
              /\ args' = [data |-> data, mask |-> mask,
                          oversampling |-> oversampling]
              /\ ret' = r.ret
              /\ warned' = r.warned
    /\ pc' = "done"
    /\ UNCHANGED <<fitted, reads, footprint, use_error, i, xcentroids,
                   ycentroids, calls>>

\* centroid_com called with data that is not 2D
CallCentroidComNd ==
    /\ pc = "idle"
    /\ \E shape \in NdShapes :
       \E data \in Arrays(shape, ComVals), mask \in NdMasks(shape),
          oversampling \in Oversamplings :
          \E r \in {centroid_com(data, mask, oversampling)} :
              /\ fn' = "centroid_com"
              /\ args' = [data |-> data, mask |-> mask,
                          oversampling |-> oversampling]
              /\ ret' = r.ret
              /\ warned' = r.warned
    /\ pc' = "done"
    /\ UNCHANGED <<fitted, reads, footprint, use_error, i, xcentroids,
                   ycentroids, calls>>

CallGaussian1dMoments ==
    /\ pc = "idle"
    /\ \E shape \in MomentShapes :
       \E data \in Arrays(shape, ComVals), mask \in MomentMasks(shape) :
          \E r \in {gaussian1d_moments(data, mask)} :
              /\ fn' = "gaussian1d_moments"
              /\ args' = [data |-> data, mask |-> mask]
              /\ ret' = r.ret
              /\ warned' = r.warned
    /\ pc' = "done"
    /\ UNCHANGED <<fitted, reads, footprint, use_error, i, xcentroids,
                   ycentroids, calls>>

\* fit_2dgaussian returns the fitted model, of which (x_mean, y_mean) is kept
CallFit2dGaussian ==
    /\ pc = "idle"
    /\ \E shape \in FitShapes :
       \E data \in FitData(shape), error \in FitErrors(shape),
          mask \in FitMasks(shape), gfit \in FitMeans :
          \E r \in {fit_2dgaussian(data, error, mask)} :
              /\ fn' = "fit_2dgaussian"
              /\ args' = [data |-> data, error |-> error, mask |-> mask]
              /\ ret' = IF r.fitted THEN Return(gfit) ELSE r.ret
              /\ warned' = r.warned
              /\ fitted' = r.fitted
    /\ pc' = "done"
    /\ UNCHANGED <<reads, footprint, use_error, i, xcentroids, ycentroids,
                   calls>>

CallCentroid1dg ==
    /\ pc = "idle"
    /\ \E shape \in FitShapes :
       \E data \in FitData(shape), error \in FitErrors(shape),
          mask \in FitMasks(shape), g_fit \in FitMeans :
          \E r \in {centroid_1dg(data, error, mask)} :
              /\ fn' = "centroid_1dg"
              /\ args' = [data |-> data, error |-> error, mask |-> mask]
              /\ ret' = IF r.fitted THEN Return(g_fit) ELSE r.ret
              /\ warned' = r.warned
              /\ fitted' = r.fitted
    /\ pc' = "done"
    /\ UNCHANGED <<reads, footprint, use_error, i, xcentroids, ycentroids,
                   calls>>

CallCentroid2dg ==
    /\ pc = "idle"
    /\ \E shape \in FitShapes :
       \E data \in FitData(shape), error \in FitErrors(shape),
          mask \in FitMasks(shape), gfit \in FitMeans :
          \E r \in {centroid_2dg(data, error, mask)} :
              /\ fn' = "centroid_2dg"
              /\ args' = [data |-> data, error |-> error, mask |-> mask]
              /\ ret' = IF r.fitted THEN Return(gfit) ELSE r.ret
              /\ warned' = r.warned
              /\ fitted' = r.fitted
    /\ pc' = "done"
    /\ UNCHANGED <<reads, footprint, use_error, i, xcentroids, ycentroids,
                   calls>>

CallCentroidEpsf ==
    /\ pc = "idle"
    /\ \E shape \in EpsfShapes :
       \E data \in EpsfData(shape), mask \in EpsfMasks(shape),
          oversampling \in Oversamplings, shift_val \in ShiftVals :
          \E r \in {centroid_epsf(data, mask, oversampling, shift_val)} :
              /\ fn' = "centroid_epsf"
              /\ args' = [data |-> data, mask |-> mask,
                          oversampling |-> oversampling,
                          shift_val |-> shift_val]
              /\ ret' = r.ret
              /\ reads' = r.reads
    /\ pc' = "done"
    /\ UNCHANGED <<warned, fitted, footprint, use_error, i, xcentroids,
                   ycentroids, calls>>

\* lines 434-465: the call, up to the for loop
CallCentroidSources ==
    /\ pc = "idle"
    /\ \E data \in SrcImages, pos \in SrcPositions, box_size \in SrcBoxes,
          fp \in SrcFootprints, error \in SrcErrors, mask \in SrcMasks,
          centroid_func \in SrcFuncs :
          LET st == sources_setup(pos[1], pos[2], box_size, fp, centroid_func)
          IN  /\ fn' = "centroid_sources"
              /\ args' = [data |-> data, xpos |-> pos[1], ypos |-> pos[2],
                          box_size |-> box_size, footprint |-> fp,
                          error |-> error, mask |-> mask,
                          centroid_func |-> centroid_func]
              /\ ret' = st.ret
              /\ footprint' = st.footprint
              /\ use_error' = st.use_error
              /\ IF st.ret.status = "none"
                 THEN pc' = "loop" /\ i' = 1
                 ELSE pc' = "done" /\ i' = 0
    /\ UNCHANGED <<warned, fitted, reads, xcentroids, ycentroids, calls>>

\* the number of (xp, yp) pairs of zip(xpos, ypos)
zip_len(xpos, ypos) == Min(Len(xpos.v), Len(ypos.v))

\* lines 467-494: one pass of the loop
SourcesIter ==
    /\ pc = "loop"
    /\ i <= zip_len(args.xpos, args.ypos)
    /\ \E ov \in {overlap_slices(args.data.shape, footprint.shape,
                                  <<args.ypos.v[i], args.xpos.v[i]>>)} :
       LET data_cutout == cutout(args.data, ov.large)
           mask_cutout == combined_mask(args.mask, footprint, ov.large,
                                        ov.small)
           with_error == ~args.error.none /\ use_error
           error_cutout == IF with_error THEN cutout(args.error, ov.large)
                           ELSE None
       IN  IF ~ov.overlap
           THEN /\ ret' = Raise("NoOverlapError", "Arrays do not overlap.")
                /\ pc' = "done"
                /\ UNCHANGED <<warned, i, xcentroids, ycentroids, calls>>
           ELSE \E r \in {call_centroid_func(args.centroid_func, data_cutout,
                                             mask_cutout, error_cutout)} :
                /\ calls' = Append(calls, [position |-> i,
                                           data |-> data_cutout,
                                           mask |-> mask_cutout,
                                           error |-> error_cutout])
                /\ warned' = (warned \/ r.warned)
                /\ IF r.ret.status = "ok"
                   THEN /\ xcentroids' = Append(xcentroids,
                               to_global(r.ret.value[1], r.ret.value[2],
                                         ov.large)[1])
                        /\ ycentroids' = Append(ycentroids,
                               to_global(r.ret.value[1], r.ret.value[2],
                                         ov.large)[2])
                        /\ i' = i + 1
                        /\ UNCHANGED <<ret, pc>>
                   ELSE /\ ret' = r.ret
                        /\ pc' = "done"
                        /\ UNCHANGED <<i, xcentroids, ycentroids>>
    /\ UNCHANGED <<fn, args, fitted, reads, footprint, use_error>>

\* line 496
SourcesReturn ==
    /\ pc = "loop"
    /\ i > zip_len(args.xpos, args.ypos)
    /\ ret' = Return(<<xcentroids, ycentroids>>)
    /\ pc' = "done"
    /\ UNCHANGED <<fn, args, warned, fitted, reads, footprint, use_error, i,
                   xcentroids, ycentroids, calls>>

ComNext == CallCentroidCom

ComSpec == Init /\ [][ComNext]_vars

NdNext == CallCentroidComNd

NdSpec == Init /\ [][NdNext]_vars

FitNext ==
    \/ CallGaussian1dMoments
    \/ CallFit2dGaussian
    \/ CallCentroid1dg
    \/ CallCentroid2dg

FitSpec == Init /\ [][FitNext]_vars

EpsfNext == CallCentroidEpsf

EpsfSpec == Init /\ [][EpsfNext]_vars

\* every function but centroid_sources
CallNext ==
    \/ CallCentroidCom
    \/ CallGaussian1dMoments
    \/ CallFit2dGaussian
    \/ CallCentroid1dg
    \/ CallCentroid2dg
    \/ CallCentroidEpsf

CallSpec == Init /\ [][CallNext]_vars

SourcesNext ==
    \/ CallCentroidSources
    \/ SourcesIter
    \/ SourcesReturn

SourcesSpec == Init /\ [][SourcesNext]_vars

Next ==
    \/ CallCentroidCom
    \/ CallCentroidComNd
    \/ CallGaussian1dMoments
    \/ CallFit2dGaussian
    \/ CallCentroid1dg
    \/ CallCentroid2dg
    \/ CallCentroidEpsf
    \/ CallCentroidSources
    \/ SourcesIter
    \/ SourcesReturn

Spec == Init /\ [][Next]_vars

----------------------------------------------------------------------------
(* Claims C1-C5 *)

RECURSIVE IntSum(_, _)
IntSum(S, f) ==
    IF S = {} THEN 0
    ELSE LET x == CHOOSE y \in S : TRUE
         IN  f[x] + IntSum(S \ {x}, f)

\* q is the quotient a / b of two integers, b # 0
IsQuotient(q, a, b) == q[2] > 0 /\ q[1] * b = q[2] * a

IsCom == fn = "centroid_com"

MaskFits == args.mask.none \/ args.mask.shape = args.data.shape

\* a copy of data in which every masked (nonzero mask) entry is set to 0
C1_ZeroedCopy ==
    Arr(args.data.shape, [idx \in Indices(args.data.shape) |->
            IF args.mask.v[idx] # 0 THEN R(0) ELSE args.data.v[idx]])

\* the boolean coercion of the mask
C1_BoolMask ==
    Arr(args.mask.shape, [idx \in Indices(args.mask.shape) |->
            IF args.mask.v[idx] = 0 THEN 0 ELSE 1])

\* C1: with a mask of data's shape, centroid_com gives what it gives without
\* a mask on a copy of data whose masked entries were set to 0, and what it
\* gives with the boolean coercion of the mask.
C1_MaskIsZeroing ==
    (IsCom /\ ~args.mask.none /\ args.mask.shape = args.data.shape) =>
        /\ ret = centroid_com(C1_ZeroedCopy, None, args.oversampling).ret
        /\ ret = centroid_com(args.data, C1_BoolMask, args.oversampling).ret

\* a returned centroid under a non-boolean mask that hides a pixel which
\* matters
C1_Witness ==
    /\ IsCom
    /\ ret.status = "ok"
    /\ ~args.mask.none /\ args.mask.shape = args.data.shape
    /\ \E idx \in DOMAIN args.mask.v : args.mask.v[idx] = 2
    /\ \E idx \in DOMAIN args.mask.v : args.mask.v[idx] = 0
    /\ isfinite(ret.value[1]) /\ isfinite(ret.value[2])
    /\ ret # centroid_com(args.data, None, args.oversampling).ret

\* d: the data as integers, masked and non-finite entries counted as 0
C2_d ==
    [idx \in Indices(args.data.shape) |->
        IF (~args.mask.none /\ args.mask.v[idx] # 0)
           \/ ~isfinite(args.data.v[idx])
        THEN 0 ELSE args.data.v[idx][1]]

C2_sum == IntSum(DOMAIN C2_d, C2_d)

\* sum(column_index * d) and sum(row_index * d)
C2_colsum == IntSum(DOMAIN C2_d, [idx \in DOMAIN C2_d |-> idx[2] * C2_d[idx]])
C2_rowsum == IntSum(DOMAIN C2_d, [idx \in DOMAIN C2_d |-> idx[1] * C2_d[idx]])

\* (ox, oy), a scalar s standing for (s, s)
C2_ox == args.oversampling[1]
C2_oy == args.oversampling[Len(args.oversampling)]

C2_SecondRow ==
    Arr(<<2, 2>>, [idx \in Indices(<<2, 2>>) |-> IF idx[1] = 1 THEN 1 ELSE 0])

\* C2: for 2D data with a non-zero sum and positive oversampling (ox, oy),
\* centroid_com returns (x, y) with x = sum(col * d) / sum(d) / ox and
\* y = sum(row * d) / sum(d) / oy; a scalar s is (s, s), so the result is
\* that of the default oversampling divided by s; a uniform 2x2 array gives
\* (1/2, 1/2), and (1/2, 0) with its second row masked.
C2_CentroidFormula ==
    (IsCom /\ Len(args.data.shape) = 2 /\ MaskFits
           /\ C2_ox[1] > 0 /\ C2_oy[1] > 0 /\ C2_sum # 0) =>
        /\ ret.status = "ok"
        /\ Len(ret.value) = 2
        /\ IsQuotient(ret.value[1], C2_colsum * C2_ox[2], C2_sum * C2_ox[1])
        /\ IsQuotient(ret.value[2], C2_rowsum * C2_oy[2], C2_sum * C2_oy[1])
        /\ Len(args.oversampling) = 1 =>
            \A k \in 1..2 :
                ret.value[k] =
                    Div(centroid_com(args.data, args.mask, <<R(1)>>).ret.value[k],
                        args.oversampling[1])
        /\ (args.data = Full(<<2, 2>>, R(1)) /\ args.oversampling = <<R(1)>>) =>
            /\ args.mask.none => ret.value = <<<<1, 2>>, <<1, 2>>>>
            /\ args.mask = C2_SecondRow => ret.value = <<<<1, 2>>, <<0, 1>>>>

\* a centroid whose x and y differ, under two different factors
C2_Witness ==
    /\ IsCom
    /\ ret.status = "ok"
    /\ Len(args.oversampling) = 2
    /\ args.oversampling[1] # args.oversampling[2]
    /\ C2_sum # 0
    /\ C2_colsum * C2_oy[1] * C2_ox[2] # C2_rowsum * C2_ox[1] * C2_oy[2]
    /\ ~args.mask.none /\ \E idx \in DOMAIN args.mask.v : args.mask.v[idx] # 0

\* some oversampling factor is zero or negative
C3_BadOversampling ==
    \E k \in 1..Len(args.oversampling) :
        args.oversampling[k][2] # 0 /\ args.oversampling[k][1] <= 0

\* C3: centroid_com and centroid_epsf raise ValueError and return nothing
\* when an oversampling factor is zero or negative, and so does
\* centroid_epsf when shift_val is zero or negative.
C3_NonPositiveRejected ==
    /\ (fn \in {"centroid_com", "centroid_epsf"} /\ C3_BadOversampling) =>
           ret.status = "ValueError" /\ ret.value = <<>>
    /\ (fn = "centroid_epsf" /\ args.shift_val[1] <= 0) =>
           ret.status = "ValueError" /\ ret.value = <<>>

\* centroid_epsf called with shift_val = 0 and everything else in order
C3_Witness ==
    /\ fn = "centroid_epsf"
    /\ args.shift_val = R(0)
    /\ ~C3_BadOversampling
    /\ args.mask.none
    /\ ret.status = "ValueError"

\* C4: a mask of another shape than data's makes centroid_com, centroid_1dg,
\* centroid_2dg (fit_2dgaussian), gaussian1d_moments and centroid_epsf raise
\* ValueError, and so does an error array of another shape for centroid_1dg
\* and centroid_2dg; nothing is returned.
C4_ShapeMismatchRejected ==
    /\ (fn \in {"centroid_com", "centroid_1dg", "centroid_2dg",
                "fit_2dgaussian", "gaussian1d_moments", "centroid_epsf"}
        /\ ~args.mask.none /\ args.mask.shape # args.data.shape) =>
           ret.status = "ValueError" /\ ret.value = <<>> /\ ~fitted
    /\ (fn \in {"centroid_1dg", "centroid_2dg", "fit_2dgaussian"}
        /\ ~args.error.none /\ args.error.shape # args.data.shape) =>
           ret.status = "ValueError" /\ ret.value = <<>> /\ ~fitted

\* centroid_1dg with an error array of another shape and a mask that fits
C4_Witness ==
    /\ fn = "centroid_1dg"
    /\ ~args.error.none /\ args.error.shape # args.data.shape
    /\ ~args.mask.none /\ args.mask.shape = args.data.shape
    /\ ret.status = "ValueError"

\* the samples outside the union of the input mask, the non-finite data and
\* the non-finite errors
C5_Samples ==
    {idx \in Indices(args.data.shape) :
        /\ args.mask.none \/ args.mask.v[idx] = 0
        /\ isfinite(args.data.v[idx])
        /\ args.error.none \/ isfinite(args.error.v[idx])}

C5_TooFew ==
    ret.status = "ValueError"
    /\ ret.msg = "Input data must have a least 7 unmasked values"

\* C5: fit_2dgaussian (and centroid_2dg) raises the too-few-samples
\* ValueError, without calling the shape estimator or the fitter, exactly
\* when fewer than 7 samples are outside the union mask.
C5_SevenSamples ==
    (fn \in {"fit_2dgaussian", "centroid_2dg"} /\ MaskFits
        /\ (args.error.none \/ args.error.shape = args.data.shape)) =>
        /\ C5_TooFew <=> Cardinality(C5_Samples) < 7
        /\ C5_TooFew => ~fitted
        /\ ~C5_TooFew => (fitted /\ ret.status = "ok")

\* eight samples of which the mask takes one and a non-finite error another
C5_Witness ==
    /\ fn = "fit_2dgaussian"
    /\ Cardinality(Indices(args.data.shape)) = 8
    /\ ~args.mask.none /\ ~args.error.none
    /\ MaskFits /\ args.error.shape = args.data.shape
    /\ Cardinality({idx \in DOMAIN args.mask.v : args.mask.v[idx] # 0}) = 1
    /\ \A idx \in DOMAIN args.data.v : isfinite(args.data.v[idx])
    /\ Cardinality(C5_Samples) = 6
    /\ C5_TooFew

----------------------------------------------------------------------------
(* Claims C6-C10 *)

IsSources == fn = "centroid_sources"

\* the pixel indices of an axis of length L that a window of n pixels
\* centred on p covers: p - n/2 <= k < p + n/2
WindowCells(p, n, L) ==
    {k \in 0..(L - 1) : /\ ~Less(R(k), Sub(p, <<n, 2>>))
                        /\ Less(R(k), Add(p, <<n, 2>>))}

SetMin(S) == CHOOSE k \in S : \A m \in S : k <= m

\* the rows and columns of the image under a window of the given shape
\* centred on the j-th position
RowsAt(j, shape) == WindowCells(args.ypos.v[j], shape[1], args.data.shape[1])
ColsAt(j, shape) == WindowCells(args.xpos.v[j], shape[2], args.data.shape[2])

\* the sub-array of a over the given rows and columns
Crop(a, rows, cols) ==
    Arr(<<Cardinality(rows), Cardinality(cols)>>,
        [idx \in Indices(<<Cardinality(rows), Cardinality(cols)>>) |->
            a.v[<<SetMin(rows) + idx[1], SetMin(cols) + idx[2]>>]])

\* (ny, nx) of the box_size argument
BoxShape == <<args.box_size.v[1], args.box_size.v[Len(args.box_size.v)]>>

BoxOnly ==
    /\ args.footprint.none
    /\ ~args.box_size.none
    /\ Len(args.box_size.v) \in {1, 2}

\* what the claim expects at position j: the centroid of the crop, given
\* the mask m, moved by the crop's first column and first row
C6_Expected(j, m) ==
    LET rows == RowsAt(j, BoxShape)
        cols == ColsAt(j, BoxShape)
        c == centroid_com(Crop(args.data, rows, cols), m, <<R(1)>>).ret.value
    IN  <<Add(c[1], R(SetMin(cols))), Add(c[2], R(SetMin(rows)))>>

C6_Overlaps(j) == RowsAt(j, BoxShape) # {} /\ ColsAt(j, BoxShape) # {}

\* C6 as stated: centroid_sources with centroid_com gives, for a position
\* whose box overlaps the image, what centroid_com gives on the cropped
\* sub-array, plus the crop's first column (x) and first row (y).
C6_Original ==
    (IsSources /\ args.centroid_func.name = "centroid_com" /\ BoxOnly) =>
        \A j \in 1..Len(xcentroids) :
            C6_Overlaps(j) =>
                <<xcentroids[j], ycentroids[j]>> = C6_Expected(j, None)

\* C6 as amended: ... what centroid_com gives on the cropped sub-array when
\* it is given the input mask (if any) cropped the same way.
C6_CropCentroid ==
    (IsSources /\ args.centroid_func.name = "centroid_com" /\ BoxOnly) =>
        \A j \in 1..Len(xcentroids) :
            C6_Overlaps(j) =>
                <<xcentroids[j], ycentroids[j]>> =
                    C6_Expected(j,
                        IF args.mask.none THEN None
                        ELSE Crop(args.mask, RowsAt(j, BoxShape),
                                  ColsAt(j, BoxShape)))

\* a centroid computed at the far edge, where the box is cut by the image
\* and the crop starts at a later column, with an input mask that is true
\* on a pixel of the crop and moves the centroid
C6_Witness ==
    /\ IsSources /\ args.centroid_func.name = "centroid_com" /\ BoxOnly
    /\ ~args.mask.none
    /\ \E j \in 1..Len(xcentroids) :
        /\ C6_Overlaps(j)
        /\ SetMin(ColsAt(j, BoxShape)) > 0
        /\ SetMin(RowsAt(j, BoxShape)) # SetMin(ColsAt(j, BoxShape))
        /\ Cardinality(ColsAt(j, BoxShape)) < BoxShape[2]
        /\ \E r \in RowsAt(j, BoxShape), c \in ColsAt(j, BoxShape) :
               args.mask.v[<<r, c>>] # 0
        /\ isfinite(xcentroids[j]) /\ isfinite(ycentroids[j])
        /\ <<xcentroids[j], ycentroids[j]>> # C6_Expected(j, None)

\* C7 as stated: a call that returns gives two arrays as long as xpos and
\* as long as ypos, the j-th entries being those of the j-th position.
C7_AllPositions ==
    (IsSources /\ pc = "done" /\ ret.status = "ok") =>
        /\ Len(ret.value[1]) = Len(args.xpos.v)
        /\ Len(ret.value[2]) = Len(args.ypos.v)
        /\ \A j \in 1..Len(calls) : calls[j].position = j

C8_BadPositions == args.xpos.ndim > 1 \/ args.ypos.ndim > 1

C8_NoWindow == args.box_size.none /\ args.footprint.none

C8_BadFootprint == ~args.footprint.none /\ Len(args.footprint.shape) # 2

C8_LongBox == ~args.box_size.none /\ Len(args.box_size.v) > 2

C8_NoMaskParameter == "mask" \notin args.centroid_func.args

C8_Rejected == pc = "done" /\ ret.status = "ValueError" /\ calls = <<>>

\* C8 as stated: ValueError, before any call of centroid_func, when xpos or
\* ypos is not 1D, neither box_size nor footprint is given, footprint is
\* not 2D, box_size has more than 2 elements, or centroid_func declares no
\* mask parameter.
C8_Original ==
    (IsSources /\ (C8_BadPositions \/ C8_NoWindow \/ C8_BadFootprint
                   \/ C8_LongBox \/ C8_NoMaskParameter)) =>
        C8_Rejected

\* C8 as amended: ... or box_size has more than 2 elements and no footprint
\* is given ...
C8_SetupRejected ==
    (IsSources /\ (C8_BadPositions \/ C8_NoWindow \/ C8_BadFootprint
                   \/ (C8_LongBox /\ args.footprint.none)
                   \/ C8_NoMaskParameter)) =>
        C8_Rejected

\* a box_size of three elements and no footprint, all else in order
C8_Witness ==
    /\ IsSources
    /\ C8_LongBox /\ args.footprint.none
    /\ ~C8_BadPositions /\ ~C8_NoMaskParameter
    /\ Len(args.xpos.v) > 0 /\ Len(args.ypos.v) > 0
    /\ C8_Rejected

\* C9: centroid_func is given an error cutout, cut like the data cutout,
\* exactly when an error array was supplied and centroid_func declares an
\* error parameter.
C9_ErrorPassed ==
    IsSources =>
        \A j \in 1..Len(calls) :
            LET rows == RowsAt(calls[j].position, footprint.shape)
                cols == ColsAt(calls[j].position, footprint.shape)
            IN  /\ calls[j].data = Crop(args.data, rows, cols)
                /\ ~calls[j].error.none <=>
                       (~args.error.none /\ "error" \in args.centroid_func.args)
                /\ ~calls[j].error.none =>
                       calls[j].error = Crop(args.error, rows, cols)

\* an error cutout passed for a box cut by the image's edge
C9_Witness ==
    /\ IsSources
    /\ \E j \in 1..Len(calls) :
        /\ ~calls[j].error.none
        /\ calls[j].error.shape # footprint.shape
        /\ calls[j].error.v[<<0, 0>>] # args.error.v[<<0, 0>>]

\* the image row (column) under row (column) 0 of a window of n pixels
\* centred on p: the smallest integer k >= p - n/2
WindowStart(p, n) ==
    CHOOSE k \in (0 - 8)..8 : /\ ~Less(R(k), Sub(p, <<n, 2>>))
                              /\ Less(R(k - 1), Sub(p, <<n, 2>>))

\* the data cutout and the mask at position j for a boolean footprint f:
\* the image under the window, and for each of its pixels whether the input
\* mask is true there or the footprint is false over it
WindowCall(j, f) ==
    LET rows == RowsAt(j, f.shape)
        cols == ColsAt(j, f.shape)
        top == WindowStart(args.ypos.v[j], f.shape[1])
        left == WindowStart(args.xpos.v[j], f.shape[2])
        shape == <<Cardinality(rows), Cardinality(cols)>>
    IN  [data |-> Crop(args.data, rows, cols),
         mask |-> Arr(shape, [idx \in Indices(shape) |->
             LET r == SetMin(rows) + idx[1]
                 c == SetMin(cols) + idx[2]
             IN  IF \/ (~args.mask.none /\ args.mask.v[<<r, c>>] # 0)
                    \/ f.v[<<r - top, c - left>>] = 0
                 THEN 1 ELSE 0])]

C10_Calls(f) ==
    /\ footprint = f
    /\ \A j \in 1..Len(calls) :
        /\ calls[j].data = WindowCall(calls[j].position, f).data
        /\ calls[j].mask = WindowCall(calls[j].position, f).mask

C10_BoxError ==
    ret.msg \in {"box_size must have 1 or 2 elements.",
                 "box_size or footprint must be defined."}

\* C10: given both, footprint alone decides the cutouts and the masks, and
\* box_size is neither used nor validated; given only box_size = (n, m),
\* they are those of an all-true footprint of shape (n, m).
C10_FootprintOverrides ==
    (IsSources /\ ~C8_BadPositions /\ ~C8_NoMaskParameter) =>
        /\ (~args.footprint.none /\ Len(args.footprint.shape) = 2) =>
            /\ ~C10_BoxError
            /\ C10_Calls(Arr(args.footprint.shape,
                    [idx \in Indices(args.footprint.shape) |->
                        IF args.footprint.v[idx] = 0 THEN 0 ELSE 1]))
        /\ (args.footprint.none /\ ~args.box_size.none
                /\ Len(args.box_size.v) = 2) =>
            C10_Calls(Full(args.box_size.v, 1))

\* a footprint with a hole given together with a box_size of three
\* elements: centroid_func is called on a cutout cut by the image's edge
C10_Witness ==
    /\ IsSources
    /\ ~args.footprint.none /\ C8_LongBox
    /\ \E idx \in DOMAIN args.footprint.v : args.footprint.v[idx] = 0
    /\ \E j \in 1..Len(calls) :
        /\ calls[j].data.shape # footprint.shape
        /\ \E idx \in DOMAIN calls[j].mask.v : calls[j].mask.v[idx] = 1

----------------------------------------------------------------------------
(* Claims C11-C16 *)

IsEpsf == fn = "centroid_epsf"

\* the x and the y oversampling factor of the call
ArgXOversampling == args.oversampling[1]
ArgYOversampling == args.oversampling[Len(args.oversampling)]

\* a call of centroid_epsf that passes the checks of its arguments
EpsfArgsValid ==
    /\ IsEpsf /\ pc = "done"
    /\ ~C3_BadOversampling
    /\ MaskFits
    /\ args.shift_val[1] > 0

\* the value of data at a cell once masked entries are zero-filled
EpsfValue(idx) ==
    IF ~args.mask.none /\ args.mask.v[idx] # 0 THEN R(0) ELSE args.data.v[idx]

\* the centre index of an axis (1: rows, 2: columns)
EpsfCenter(axis) ==
    CHOOSE c \in 0..args.data.shape[axis] :
        2 * c <= args.data.shape[axis] - 1 /\ args.data.shape[axis] - 1 < 2 * c + 2

\* v rounded to the nearest integer, a half to the even one
RoundsTo(k, v) ==
    LET twice == Mul(R(2), Sub(v, R(k)))
    IN  \/ Less(R(0 - 1), twice) /\ Less(twice, R(1))
        \/ twice \in {R(0 - 1), R(1)} /\ k % 2 = 0

EpsfShiftIdx ==
    CHOOSE k \in 0..8 : RoundsTo(k, Mul(args.shift_val, ArgXOversampling))

\* the six offsets from the centre at which an axis is sampled
EpsfOffsets ==
    {EpsfShiftIdx + e : e \in {0 - 1, 0, 1}} \cup
    {0 - EpsfShiftIdx + e : e \in {0 - 1, 0, 1}}

\* the (row, column) index pairs of the samples the two shifts are computed
\* from: along the row and along the column through the centre
EpsfSamples ==
    {<<EpsfCenter(1), EpsfCenter(2) + o>> : o \in EpsfOffsets} \cup
    {<<EpsfCenter(1) + o, EpsfCenter(2)>> : o \in EpsfOffsets}

EpsfSamplesInside == EpsfSamples \subseteq Indices(args.data.shape)

\* C11: centroid_epsf raises ValueError whenever a sample of the shift
\* computation (after zero-filling masked entries) is not finite, and a
\* centroid it returns was computed from finite samples only.
C11_NonFiniteRejected ==
    (EpsfArgsValid /\ EpsfSamplesInside) =>
        /\ (\E idx \in EpsfSamples : ~isfinite(EpsfValue(idx))) =>
               ret.status = "ValueError"
        /\ ret.status = "ok" =>
               \A idx \in EpsfSamples : isfinite(EpsfValue(idx))

\* the value centroid_com sums at a cell: 0 where the mask is true or the
\* data is not finite
C12_Kept(idx) ==
    IF (~args.mask.none /\ args.mask.v[idx] # 0) \/ ~isfinite(args.data.v[idx])
    THEN 0 ELSE args.data.v[idx][1]

C12_Total ==
    IntSum(Indices(args.data.shape),
           [idx \in Indices(args.data.shape) |-> C12_Kept(idx)])

\* sum(index_a * data) for the a-th stored axis
C12_Moment(a) ==
    IntSum(Indices(args.data.shape),
           [idx \in Indices(args.data.shape) |-> idx[a] * C12_Kept(idx)])

\* C12: for data of any number n of dimensions with a non-zero sum and a
\* scalar oversampling, centroid_com returns n coordinates, that of stored
\* axis a being sum(index_a * data) / sum(data) / oversampling, the last
\* stored axis first.
C12_EveryDimension ==
    (IsCom /\ pc = "done" /\ Len(args.oversampling) = 1
        /\ ~C3_BadOversampling /\ MaskFits /\ C12_Total # 0) =>
        /\ ret.status = "ok"
        /\ Len(ret.value) = Len(args.data.shape)
        /\ \A a \in 1..Len(args.data.shape) :
               IsQuotient(ret.value[Len(args.data.shape) + 1 - a],
                          C12_Moment(a) * ArgXOversampling[2],
                          C12_Total * ArgXOversampling[1])

\* the mask, or the error array, of the call has another shape than data
C13_Mismatch ==
    \/ ~args.mask.none /\ args.mask.shape # args.data.shape
    \/ /\ fn \in {"fit_2dgaussian", "centroid_1dg"}
       /\ ~args.error.none /\ args.error.shape # args.data.shape

\* C13: in centroid_com, gaussian1d_moments, fit_2dgaussian, centroid_1dg
\* and centroid_epsf a mask or an error array of another shape than data's
\* is rejected before anything else happens: ValueError, no warning about
\* non-finite values, no pixel read, no fit.
C13_RejectedFirst ==
    (fn \in {"centroid_com", "gaussian1d_moments", "fit_2dgaussian",
             "centroid_1dg", "centroid_epsf"}
        /\ pc = "done" /\ C13_Mismatch) =>
        /\ ret.status = "ValueError"
        /\ ~warned
        /\ ~fitted
        /\ reads = {}

\* the image pixel under cell idx of the cutout of the j-th call
C14_Pixel(j, idx) ==
    <<SetMin(RowsAt(calls[j].position, footprint.shape)) + idx[1],
      SetMin(ColsAt(calls[j].position, footprint.shape)) + idx[2]>>

\* the footprint cell that lies over an image pixel at the j-th call
C14_Cell(j, px) ==
    <<px[1] - WindowStart(args.ypos.v[calls[j].position], footprint.shape[1]),
      px[2] - WindowStart(args.xpos.v[calls[j].position], footprint.shape[2])>>

C14_InputMasked(px) == ~args.mask.none /\ args.mask.v[px] # 0

\* C14: the mask given to centroid_func has the shape of the data cutout,
\* and is true at a cutout pixel exactly when the input mask is true at
\* that image pixel or the footprint is false at the cell over it.
C14_MaskContent ==
    IsSources =>
        \A j \in 1..Len(calls) :
            /\ calls[j].mask.shape = calls[j].data.shape
            /\ DOMAIN calls[j].mask.v = DOMAIN calls[j].data.v
            /\ \A idx \in DOMAIN calls[j].mask.v :
                   calls[j].mask.v[idx] = 1 <=>
                       \/ C14_InputMasked(C14_Pixel(j, idx))
                       \/ footprint.v[C14_Cell(j, C14_Pixel(j, idx))] = 0

\* two calls: one at the image's edge whose cutout has a pixel under a hole
\* of the footprint, one with a pixel that only the input mask excludes and
\* a pixel that nothing excludes
C14_Witness ==
    /\ IsSources
    /\ \E j \in 1..Len(calls) :
        /\ calls[j].data.shape # footprint.shape
        /\ \E idx \in DOMAIN calls[j].mask.v :
            /\ calls[j].mask.v[idx] = 1
            /\ ~C14_InputMasked(C14_Pixel(j, idx))
    /\ \E j \in 1..Len(calls) :
        /\ \E idx \in DOMAIN calls[j].mask.v :
            /\ calls[j].mask.v[idx] = 1
            /\ C14_InputMasked(C14_Pixel(j, idx))
            /\ footprint.v[C14_Cell(j, C14_Pixel(j, idx))] = 1
        /\ \E idx \in DOMAIN calls[j].mask.v : calls[j].mask.v[idx] = 0

\* the sample of an axis (1: rows, 2: columns) at offset o from the centre
C15_Psi(axis, o) ==
    EpsfValue(IF axis = 1 THEN <<EpsfCenter(1) + o, EpsfCenter(2)>>
              ELSE <<EpsfCenter(1), EpsfCenter(2) + o>>)

\* |difference of the two neighbours| / (2 / oversampling)
C15_Dpsi(axis, o, oversamp) ==
    Div(Abs(Sub(C15_Psi(axis, o + 1), C15_Psi(axis, o - 1))),
        Div(R(2), oversamp))

C15_Shift(axis, oversamp) ==
    Div(Sub(C15_Psi(axis, EpsfShiftIdx), C15_Psi(axis, 0 - EpsfShiftIdx)),
        Add(C15_Dpsi(axis, EpsfShiftIdx, oversamp),
            C15_Dpsi(axis, 0 - EpsfShiftIdx, oversamp)))

\* C15: centroid_epsf returns (x_0 + x_shift, y_0 + y_shift): the centre
\* index (size - 1) / 2 truncated over the axis's oversampling, plus
\* (psi_pos - psi_neg) / (dpsi_pos + dpsi_neg) sampled at the one shift index
\* round(shift_val * x oversampling), each dpsi scaled by its own axis's
\* oversampling.
C15_EpsfFormula ==
    (EpsfArgsValid /\ ret.status = "ok" /\ EpsfSamplesInside) =>
        /\ ret.value[1] = Add(Div(R(EpsfCenter(2)), ArgXOversampling),
                              C15_Shift(2, ArgXOversampling))
        /\ ret.value[2] = Add(Div(R(EpsfCenter(1)), ArgYOversampling),
                              C15_Shift(1, ArgYOversampling))

\* a centroid returned for two different oversampling factors, for which
\* the y factor would give another shift index, shifted on both axes
C15_Witness ==
    /\ EpsfArgsValid /\ ret.status = "ok"
    /\ ArgXOversampling # ArgYOversampling
    /\ EpsfShiftIdx > 0
    /\ ~RoundsTo(EpsfShiftIdx, Mul(args.shift_val, ArgYOversampling))
    /\ isfinite(ret.value[1]) /\ isfinite(ret.value[2])
    /\ ret.value[1] # Div(R(EpsfCenter(2)), ArgXOversampling)
    /\ ret.value[2] # Div(R(EpsfCenter(1)), ArgYOversampling)

EpsfOddSizes == args.data.shape[1] % 2 = 1 /\ args.data.shape[2] % 2 = 1

\* C16: for data of odd size on both axes, a call of centroid_epsf that
\* returns has read pixels only through indices within [0, size - 1] of
\* their axis, and a call for which center +/- (shift_idx + 1) does not fit
\* inside the array does not return a centroid.
C16_ReadsInside ==
    (IsEpsf /\ pc = "done" /\ EpsfOddSizes) =>
        /\ ret.status = "ok" =>
               /\ reads \subseteq Indices(args.data.shape)
               /\ EpsfSamples \subseteq reads
        /\ (EpsfArgsValid /\ ~EpsfSamplesInside) =>
               ret.status = "IndexError" /\ ret.value = <<>>

\* a returned centroid for which the samples reach the first and the last
\* row and column
C16_Witness ==
    /\ IsEpsf /\ pc = "done" /\ EpsfOddSizes
    /\ ret.status = "ok"
    /\ EpsfShiftIdx > 0
    /\ <<EpsfCenter(1), 0>> \in reads
    /\ <<0, EpsfCenter(2)>> \in reads
    /\ <<EpsfCenter(1), args.data.shape[2] - 1>> \in reads

====
